---- MODULE Spec2Model ----
(***************************************************************************)
(* Host side of the robot link: communicate_with_robot                     *)
(* (src/main_controller.py) driving UARTCommunication (src/uart.py), with  *)
(* the two pure stages around it: create_path_dataframe, which turns the   *)
(* planner's primitives into the plan, and calculate_x_y_coords, which     *)
(* integrates the telemetry log into positions.  Each of the three has its *)
(* own specification; the variables of the other two stay at rest.         *)
(*                                                                         *)
(* One plan execution is modelled as a single thread stepping through the  *)
(* function, interleaved with the controller, which may put lines into the *)
(* receive buffer of the open port at any moment.                          *)
(*                                                                         *)
(* Bytes are integers (their codes).  A received line is the sequence of   *)
(* bytes readline() returns without the trailing "\n".  The alphabet of    *)
(* the lines that are fed in is digits, ',', '.', '+', '-', 'x', CR and    *)
(* one non-ASCII byte; on it the parsers below are those of Python.        *)
(*                                                                         *)
(* Time is counted in polls: one tick is one time.sleep(0.01) of the wait  *)
(* loop, and an iteration of the loop takes one tick or more.              *)
(***************************************************************************)
EXTENDS Integers, Sequences, FiniteSets, TLC

VARIABLES
    uart_module,        \* which uart module `import uart` resolved to
    path_df,            \* the plan: rows of steering, gear, duration_ms
    pc,                 \* position of the sequencing thread
    index,              \* number of plan rows the for loop has taken
    port,               \* "unopened", "open" or "closed"
    writes,             \* messages handed to serial_port.write, in order
    arrived,            \* every line the controller has sent, in order
    cursor,             \* number of lines readline() has consumed
    robot_log_data,     \* the plan-wide telemetry log
    elapsed,            \* ticks since start_wait_time
    segment_completed,  \* the flag of the wait loop
    trace,              \* history: what the thread did, in order
    inTimeSignals,      \* history: segments whose completion line arrived
                        \*   while they were awaited, before their deadline
    result,             \* the returned DataFrame (rows), once returned
    \* create_path_dataframe
    full_path,          \* the planner's primitives (steering, gear, param)
    df,                 \* the DataFrame being built (rows), or "None"
    tpc,                \* position in create_path_dataframe
    \* calculate_x_y_coords
    robot_responses_df, \* the caller's DataFrame (rows)
    df_for_odometry,    \* the copy that is sorted and iterated
    opc,                \* position in calculate_x_y_coords
    x, y,               \* _x, _y in micrometres
    theta,              \* _theta_rad, in thousandths of a degree
    last_timestamp_ms,
    calculated_x_coords,
    calculated_y_coords,
    thetas,             \* history: the heading after every update
    \* send_command_and_collect_logs
    collector           \* the script whose collector runs, or "none"

commVars == <<uart_module, path_df, pc, index, port, writes, arrived, cursor,
              robot_log_data, elapsed, segment_completed, trace,
              inTimeSignals, result>>
planVars == <<full_path, df, tpc>>
odoVars == <<robot_responses_df, df_for_odometry, opc, x, y, theta,
             last_timestamp_ms, calculated_x_coords, calculated_y_coords,
             thetas>>

collectVars == <<collector>>

vars == <<commVars, planVars, odoVars, collectVars>>

----------------------------------------------------------------------------
(* Bounds of the model *)

MaxPlan == 2        \* longest plan
MaxLines == 2       \* lines the controller sends during one execution
TimeoutPolls == 2   \* SEGMENT_TIMEOUT_SECONDS, in ticks
MaxStep == 1        \* longest single iteration of the wait loop, in ticks
DurationPolls == 3  \* duration_seconds of a collector, in ticks
MaxCollected == 3   \* lines the controller sends while a collector runs

----------------------------------------------------------------------------
(* Text helpers: bytes.decode, str.strip, str.split, int(), float() *)

Last(s) == s[Len(s)]
Front(s) == SubSeq(s, 1, Len(s) - 1)

Whitespace == {9, 10, 11, 12, 13, 28, 29, 30, 31, 32}
Digits == 48..57
Signs == {43, 45}

\* bytes.decode('ascii', errors='ignore'): the bytes >= 128 are dropped
DecodeAsciiIgnore(b) == SelectSeq(b, LAMBDA c : c < 128)

RECURSIVE LStrip(_)
LStrip(s) == IF s # <<>> /\ Head(s) \in Whitespace THEN LStrip(Tail(s)) ELSE s

RECURSIVE RStrip(_)
RStrip(s) == IF s # <<>> /\ Last(s) \in Whitespace THEN RStrip(Front(s)) ELSE s

Strip(s) == RStrip(LStrip(s))

\* str.split(','): one part more than there are commas
Commas(s) == {i \in 1..Len(s) : s[i] = 44}
KthComma(s, k) ==
    CHOOSE i \in Commas(s) : Cardinality({j \in Commas(s) : j <= i}) = k
SplitComma(s) ==
    [k \in 1..(Cardinality(Commas(s)) + 1) |->
        SubSeq(s,
               IF k = 1 THEN 1 ELSE KthComma(s, k - 1) + 1,
               IF k = Cardinality(Commas(s)) + 1 THEN Len(s)
               ELSE KthComma(s, k) - 1)]

Unsigned(t) == IF t # <<>> /\ Head(t) \in Signs THEN Tail(t) ELSE t
SignOf(t) == IF t # <<>> /\ Head(t) = 45 THEN -1 ELSE 1

RECURSIVE DigitsValue(_)
DigitsValue(d) ==
    IF d = <<>> THEN 0 ELSE DigitsValue(Front(d)) * 10 + (Last(d) - 48)

\* int(text) does not raise ValueError
IntParses(text) ==
    LET d == Unsigned(Strip(text))
    IN  d # <<>> /\ \A i \in 1..Len(d) : d[i] \in Digits

IntValue(text) == SignOf(Strip(text)) * DigitsValue(Unsigned(Strip(text)))

\* float(text) does not raise ValueError
FloatParses(text) ==
    LET d == Unsigned(Strip(text))
        dots == {i \in 1..Len(d) : d[i] = 46}
    IN  /\ \A i \in 1..Len(d) : d[i] \in Digits \cup {46}
        /\ Cardinality(dots) <= 1
        /\ \E i \in 1..Len(d) : d[i] \in Digits

\* float(text), in thousandths (exact up to three fractional digits)
FloatValue(text) ==
    LET d == Unsigned(Strip(text))
        dot == IF \E i \in 1..Len(d) : d[i] = 46
               THEN CHOOSE i \in 1..Len(d) : d[i] = 46 ELSE Len(d) + 1
        whole == SubSeq(d, 1, dot - 1)
        frac == SubSeq(SubSeq(d, dot + 1, Len(d)) \o <<48, 48, 48>>, 1, 3)
    IN  SignOf(Strip(text)) * (DigitsValue(whole) * 1000 + DigitsValue(frac))

----------------------------------------------------------------------------
(* The wire: lines of the controller, rows of the plan, command messages *)

RECURSIVE JoinComma(_)
JoinComma(fields) ==
    IF Len(fields) = 1 THEN fields[1]
    ELSE fields[1] \o <<44>> \o JoinComma(Tail(fields))

Zero == <<48>>

LineDone == <<49>>                                              \* 1
LineDoneCR == <<49, 13>>                                        \* 1\r
LineSampleA == JoinComma(<<<<49>>, Zero, <<48, 46, 53>>, Zero, Zero, <<57, 48>>>>)
                                                                \* 1,0,0.5,0,0,90
LineSampleB == JoinComma(<<<<50>>, Zero, Zero, Zero, Zero, <<45, 57>>>>)
                                                                \* 2,0,0,0,0,-9
LineShort == JoinComma(<<<<49>>, <<50>>>>)                      \* 1,2
LineNonNumeric == JoinComma(<<<<51>>, Zero, <<120>>, Zero, Zero, Zero>>)
                                                                \* 3,0,x,0,0,0
LineNoiseDone == <<255, 49>>                                    \* \xff1

Lines == {LineDone, LineDoneCR, LineSampleA, LineSampleB, LineShort,
          LineNonNumeric, LineNoiseDone}

PlanRows ==
    { [steering |-> "LEFT", gear |-> "FORWARD", duration_ms |-> 55],
      [steering |-> "STRAIGHT", gear |-> "BACKWARD", duration_ms |-> 462] }

RECURSIVE SeqsUpTo(_, _)
SeqsUpTo(S, n) ==
    IF n = 0 THEN {<<>>}
    ELSE LET shorter == SeqsUpTo(S, n - 1)
         IN  shorter \cup {Append(p, r) : p \in shorter, r \in S}

Plans == SeqsUpTo(PlanRows, MaxPlan)

UartModules == {"uart_py", "uart_duration"}

NoCommand ==
    [steering |-> "-", gear |-> "-", duration |-> 0, lifting |-> "-"]

Event(e, k, m) == [ev |-> e, seg |-> k, msg |-> m]

----------------------------------------------------------------------------
(* UARTCommunication.send_command *)

\* the parameters of send_command, all of them required
SendCommandParams(module) ==
    IF module = "uart_py"
    THEN {"steering", "gear", "velocity", "use_controller"}
    ELSE {"steering", "gear", "duration", "lifting"}

\* the keywords communicate_with_robot passes, for a segment and for the stop
CallKeywords == {"steering", "gear", "duration", "lifting"}

\* the call binds: no unexpected keyword, no missing argument
Accepts(module, keywords) == keywords = SendCommandParams(module)

----------------------------------------------------------------------------
(* communicate_with_robot *)

\* mutant: a steering that is neither left nor right is sent as neutral
steering_char_neutral(row) ==
    IF row.steering = "LEFT" THEN "R"
    ELSE IF row.steering = "RIGHT" THEN "L"
    ELSE "N"

steering_char(row) ==
    IF row.steering = "LEFT" THEN "R"
    ELSE IF row.steering = "RIGHT" THEN "L"
    ELSE "S"

\* mutant: a gear that is neither forward nor backward is sent as forward
gear_char_forward(row) ==
    IF row.gear = "BACKWARD" THEN "B" ELSE "F"

gear_char(row) ==
    IF row.gear = "FORWARD" THEN "F"
    ELSE IF row.gear = "BACKWARD" THEN "B"
    ELSE "N"

SegmentCommand(row) ==
    [steering |-> steering_char(row), gear |-> gear_char(row),
     duration |-> row.duration_ms, lifting |-> "N"]

\* mutant: the stop is sent as a straight segment
stop_call_straight ==
    [steering |-> "S", gear |-> "N", duration |-> 0, lifting |-> "N"]

\* the call after the for loop
stop_call ==
    [steering |-> "N", gear |-> "N", duration |-> 0, lifting |-> "N"]

\* mutant: the loop has no deadline
LoopCondition_forever(e) == e >= 0

\* while (time.monotonic() - start_wait_time) < SEGMENT_TIMEOUT_SECONDS
LoopCondition(e) == e < TimeoutPolls

\* response_line: readline().decode('ascii', errors='ignore').strip()
ResponseLine(line) == Strip(DecodeAsciiIgnore(line))

\* mutant: the first field is compared instead of the line
IsCompletion_first_field(response_line) ==
    SplitComma(response_line)[1] = <<49>>

\* if response_line == "1"
IsCompletion(response_line) == response_line = <<49>>

\* mutant: only the timestamp is validated
Parses_timestamp_only(parts) == IntParses(parts[1])

\* the try block of the parse does not raise ValueError
Parses(parts) ==
    /\ IntParses(parts[1])
    /\ \A i \in 2..6 : FloatParses(parts[i])

parsed_data(parts) ==
    [timestamp_ms |-> IntValue(parts[1]),
     desired_velocity |-> FloatValue(parts[2]),
     actual_velocity |-> FloatValue(parts[3]),
     error |-> FloatValue(parts[4]),
     output |-> FloatValue(parts[5]),
     gyro_z |-> FloatValue(parts[6])]

\* lines 256-271: what a line that is not the completion signal adds to the
\* log, one sample or nothing
Decoded(response_line) ==
    LET parts == SplitComma(response_line)
    IN  IF Len(parts) >= 6 /\ Parses(parts)
        THEN <<parsed_data(parts)>>
        ELSE <<>>

\* Decoded, tabulated over the lines the controller sends
DecodedLine == [line \in Lines |-> Decoded(ResponseLine(line))]

\* uart_comm.serial_port.in_waiting > 0
InWaiting(lines, cur) == cur < Len(lines)

\* readline(): the next unread line; the read cursor moves past it
ReadlineLine(lines, cur) == lines[cur + 1]
\* mutant: the line is peeked at, not consumed
ReadlineCursor_peek(cur) == cur
ReadlineCursor(cur) == cur + 1

\* mutant: a timeout does not leave the for loop
PcAfterTimeout_continue == "for"
\* mutant: a timeout returns without the stop
PcAfterTimeout_return == "finally"

\* where control goes when the wait loop ends without completion (break)
PcAfterTimeout == "stop"
\* where control goes when the segment completed (next iteration of the for)
PcAfterCompleted == "for"
\* mutant: the close is not in a finally clause
PcAfterExcept_no_finally == "returned"
\* mutant: there is no except clause, the exception leaves the function
PcAfterExcept_propagates == "raised"

\* where control goes once the except clause (lines 283-284, a print) has
\* handled an exception raised in the try block
PcAfterExcept == "finally"

Tick(e, d) == IF e + d > TimeoutPolls THEN TimeoutPolls ELSE e + d

\* mutant: the plan is not looked at before the port is opened
PlanIsEmpty_never(p) == FALSE

\* line 206: path_df is None or path_df.empty
PlanIsEmpty(p) == p = <<>>

\* mutant: the log is not what is returned
ReturnedRows_nothing(log) == <<>>

\* line 289: pd.DataFrame(robot_log_data), one row per sample
ReturnedRows(log) == log

\* create_path_dataframe is not running
PlanAtRest ==
    /\ full_path = <<>>
    /\ df = <<>>
    /\ tpc = "rest"

\* calculate_x_y_coords is not running
OdoAtRest ==
    /\ robot_responses_df = <<>>
    /\ df_for_odometry = <<>>
    /\ opc = "rest"
    /\ x = 0
    /\ y = 0
    /\ theta = 0
    /\ last_timestamp_ms = 0
    /\ calculated_x_coords = <<>>
    /\ calculated_y_coords = <<>>
    /\ thetas = <<>>

\* no collector is running
CollectAtRest == collector = "none"

\* communicate_with_robot is not running
CommAtRest ==
    /\ uart_module = "uart_py"
    /\ path_df = <<>>
    /\ pc = "rest"
    /\ index = 0
    /\ port = "unopened"
    /\ writes = <<>>
    /\ arrived = <<>>
    /\ cursor = 0
    /\ robot_log_data = <<>>
    /\ elapsed = 0
    /\ segment_completed = FALSE
    /\ trace = <<>>
    /\ inTimeSignals = {}
    /\ result = <<>>

Init ==
    /\ PlanAtRest
    /\ OdoAtRest
    /\ CollectAtRest
    /\ uart_module \in UartModules
    /\ path_df \in Plans
    /\ pc = "entry"
    /\ index = 0
    /\ port = "unopened"
    /\ writes = <<>>
    /\ arrived = <<>>
    /\ cursor = 0
    /\ robot_log_data = <<>>
    /\ elapsed = 0
    /\ segment_completed = FALSE
    /\ trace = <<>>
    /\ inTimeSignals = {}
    /\ result = <<>>

\* lines 206-208: nothing to send
ReturnEmpty ==
    /\ UNCHANGED <<planVars, odoVars, collectVars>>
    /\ pc = "entry"
    /\ PlanIsEmpty(path_df)
    /\ pc' = "returned"
    /\ result' = <<>>
    /\ UNCHANGED <<uart_module, path_df, index, port, writes, arrived, cursor,
                   robot_log_data, elapsed, segment_completed, trace,
                   inTimeSignals>>

\* lines 210-213: the port is opened, or serial.Serial raises and the
\* exception leaves the function
OpenPort ==
    /\ UNCHANGED <<planVars, odoVars, collectVars>>
    /\ pc = "entry"
    /\ ~PlanIsEmpty(path_df)
    /\ \E ok \in BOOLEAN :
          IF ok
          THEN /\ port' = "open"
               /\ pc' = "for"
               /\ trace' = Append(trace, Event("open", 0, NoCommand))
          ELSE /\ port' = port
               /\ pc' = "raised"
               /\ trace' = Append(trace, Event("open_raised", 0, NoCommand))
    /\ UNCHANGED <<uart_module, path_df, index, writes, arrived, cursor,
                   robot_log_data, elapsed, segment_completed, inTimeSignals,
                   result>>

\* send_command as called at lines 235-242 and 281: TypeError when the call
\* does not bind, else write and flush, which succeed or raise; what is
\* raised is caught by the except clause
Send(msg, k, pcDone) ==
    IF ~Accepts(uart_module, CallKeywords)
    THEN /\ writes' = writes
         /\ pc' = PcAfterExcept
         /\ trace' = Append(trace, Event("TypeError", k, msg))
    ELSE /\ writes' = Append(writes, msg)
         /\ \E ok \in BOOLEAN :
               IF ok
               THEN /\ pc' = pcDone
                    /\ trace' = Append(trace, Event("write", k, msg))
               ELSE /\ pc' = PcAfterExcept
                    /\ trace' = Append(Append(trace, Event("write", k, msg)),
                                       Event("write_raised", k, msg))

\* lines 218-246: the next row is sent and the wait starts
SendSegment ==
    /\ UNCHANGED <<planVars, odoVars, collectVars>>
    /\ pc = "for"
    /\ index < Len(path_df)
    /\ index' = index + 1
    /\ Send(SegmentCommand(path_df[index + 1]), index + 1, "wait")
    /\ IF pc' = "wait"
       THEN elapsed' = 0 /\ segment_completed' = FALSE
       ELSE UNCHANGED <<elapsed, segment_completed>>
    /\ UNCHANGED <<uart_module, path_df, port, arrived, cursor,
                   robot_log_data, inTimeSignals, result>>

\* lines 247-272: one iteration of the wait loop
WaitPoll ==
    /\ UNCHANGED <<planVars, odoVars, collectVars>>
    /\ pc = "wait"
    /\ LoopCondition(elapsed)
    /\ \E d \in 1..MaxStep :
          IF ~InWaiting(arrived, cursor)
          THEN /\ elapsed' = Tick(elapsed, d)
               /\ UNCHANGED <<pc, cursor, robot_log_data, segment_completed, trace>>
          ELSE LET response_line == ResponseLine(ReadlineLine(arrived, cursor))
               IN  /\ cursor' = ReadlineCursor(cursor)
                   /\ IF IsCompletion(response_line)
                      THEN /\ segment_completed' = TRUE
                           /\ pc' = PcAfterCompleted
                           /\ trace' = Append(trace, Event("completed", index, NoCommand))
                           /\ UNCHANGED <<robot_log_data, elapsed>>
                      ELSE /\ robot_log_data' =
                                   robot_log_data \o DecodedLine[ReadlineLine(arrived, cursor)]
                           /\ elapsed' = Tick(elapsed, d)
                           /\ UNCHANGED <<pc, segment_completed, trace>>
    /\ UNCHANGED <<uart_module, path_df, index, port, writes, arrived,
                   inTimeSignals, result>>

\* lines 248-249: in_waiting or readline raises (the link failed); the except
\* clause catches it
WaitPollRaises ==
    /\ UNCHANGED <<planVars, odoVars, collectVars>>
    /\ pc = "wait"
    /\ LoopCondition(elapsed)
    /\ pc' = PcAfterExcept
    /\ trace' = Append(trace, Event("read_raised", index, NoCommand))
    /\ UNCHANGED <<uart_module, path_df, index, port, writes, arrived, cursor,
                   robot_log_data, elapsed, segment_completed, inTimeSignals,
                   result>>

\* lines 247 and 274-276: the deadline has passed, the for loop is left
WaitTimeout ==
    /\ UNCHANGED <<planVars, odoVars, collectVars>>
    /\ pc = "wait"
    /\ ~LoopCondition(elapsed)
    /\ pc' = PcAfterTimeout
    /\ trace' = Append(trace, Event("timeout", index, NoCommand))
    /\ UNCHANGED <<uart_module, path_df, index, port, writes, arrived, cursor,
                   robot_log_data, elapsed, segment_completed, inTimeSignals,
                   result>>

\* lines 280-281: after the for loop
SendStop ==
    /\ UNCHANGED <<planVars, odoVars, collectVars>>
    /\ \/ pc = "stop"
       \/ pc = "for" /\ index = Len(path_df)
    /\ Send(stop_call, 0, "finally")
    /\ UNCHANGED <<uart_module, path_df, index, port, arrived, cursor,
                   robot_log_data, elapsed, segment_completed, inTimeSignals,
                   result>>

\* lines 285-289: the finally clause closes the port
\* (UARTCommunication.close), then the log is returned
FinallyReturn ==
    /\ UNCHANGED <<planVars, odoVars, collectVars>>
    /\ pc = "finally"
    /\ port' = "closed"
    /\ trace' = Append(trace, Event("close", 0, NoCommand))
    /\ result' = ReturnedRows(robot_log_data)
    /\ pc' = "returned"
    /\ UNCHANGED <<uart_module, path_df, index, writes, arrived, cursor,
                   robot_log_data, elapsed, segment_completed, inTimeSignals>>

\* line 289: what the caller gets is the DataFrame of the log, nothing else
ReturnValue == [telemetry |-> result]

\* the controller sends a line; it waits in the receive buffer of the port
\* (lines that arrive once the thread has left the try block are never read
\* and are left out)
Arrive ==
    /\ UNCHANGED <<planVars, odoVars, collectVars>>
    /\ port = "open"
    /\ pc \in {"for", "wait", "stop"}
    /\ Len(arrived) < MaxLines
    /\ \E line \in Lines :
          /\ arrived' = Append(arrived, line)
          /\ inTimeSignals' =
                IF /\ pc = "wait"
                   /\ LoopCondition(elapsed)
                   /\ IsCompletion(ResponseLine(line))
                THEN inTimeSignals \cup {index}
                ELSE inTimeSignals
    /\ UNCHANGED <<uart_module, path_df, pc, index, port, writes, cursor,
                   robot_log_data, elapsed, segment_completed, trace, result>>

\* the steps the sequencing thread takes by itself
Program ==
    \/ ReturnEmpty
    \/ OpenPort
    \/ SendSegment
    \/ WaitPoll
    \/ WaitTimeout
    \/ SendStop
    \/ FinallyReturn

Next == Program \/ WaitPollRaises \/ Arrive

Spec == Init /\ [][Next]_vars

\* the sequencing thread keeps running; nothing forces the link to fail or the
\* controller to send
FairSpec == Spec /\ WF_vars(Program)

----------------------------------------------------------------------------
(* create_path_dataframe                                                   *)
(*                                                                         *)
(* A length is [mm, e11]: mm thousandths of a metre plus e11 times 5e-11 m *)
(* (e11 is non-zero only where mm is 0: the lengths around the 1e-10       *)
(* tolerance).  Velocities and the turning radius are in hundredths.  A    *)
(* duration in milliseconds is the exact quotient [num, den] with a flag   *)
(* `below` where the double that Python computes lies below a whole exact  *)
(* quotient; everywhere else on the lengths below the double truncates to  *)
(* the same integer as the exact quotient.                                 *)

FORWARD_STRAIGHT_SHORT_VELOCITY == 600
FORWARD_STRAIGHT_LONG_VELOCITY == 80
FORWARD_LEFT_SHORT_VELOCITY == 110
FORWARD_LEFT_LONG_VELOCITY == 45
FORWARD_RIGHT_SHORT_VELOCITY == 110
FORWARD_RIGHT_LONG_VELOCITY == 45
BACKWARD_STRAIGHT_SHORT_VELOCITY == 100
BACKWARD_STRAIGHT_LONG_VELOCITY == 65
BACKWARD_LEFT_SHORT_VELOCITY == 70
BACKWARD_LEFT_LONG_VELOCITY == 45
BACKWARD_RIGHT_SHORT_VELOCITY == 70
BACKWARD_RIGHT_LONG_VELOCITY == 45
TURNING_RADIUS == 60

MaxPath == 2        \* longest sequence of primitives

Length(mm, e11) == [mm |-> mm, e11 |-> e11]
ZeroLength == Length(0, 0)

Gears == {"FORWARD", "BACKWARD", "NEUTRAL"}
Steerings == {"LEFT", "STRAIGHT", "RIGHT"}

Primitive(s, g, l) == [steering |-> s, gear |-> g, param |-> l]

\* the primitives the planner hands over: every gear and steering with a
\* short length (0.1) and the threshold length (0.4), and for one pair the
\* lengths 0, 5e-11, -5e-11, 1e-10, -0.3 and 0.5
Primitives ==
    {Primitive(s, g, Length(mm, 0)) :
        s \in Steerings, g \in Gears, mm \in {100, 400}}
    \cup {Primitive("LEFT", "FORWARD", l) :
            l \in {ZeroLength, Length(0, 1), Length(0, -1), Length(0, 2),
                   Length(-300, 0)}}
    \cup {Primitive("STRAIGHT", "FORWARD", Length(500, 0))}

Paths == SeqsUpTo(Primitives, MaxPath)

\* mutant: only a length of exactly 0 counts as zero
AbsBelowTolerance_exact(param) == param = ZeroLength

\* abs(p.param) < 1e-10
AbsBelowTolerance(param) == param.mm = 0 /\ param.e11 \in {-1, 0, 1}

\* mutant: the threshold length is short
is_short_inclusive(distance) == distance.mm <= 400

\* is_short = distance < 0.4
is_short(distance) == distance.mm < 400

get_velocity(gear, steering, distance) ==
    IF gear = "FORWARD" /\ steering = "STRAIGHT"
    THEN (IF is_short(distance) THEN FORWARD_STRAIGHT_SHORT_VELOCITY
          ELSE FORWARD_STRAIGHT_LONG_VELOCITY)
    ELSE IF gear = "FORWARD" /\ steering = "LEFT"
    THEN (IF is_short(distance) THEN FORWARD_LEFT_SHORT_VELOCITY
          ELSE FORWARD_LEFT_LONG_VELOCITY)
    ELSE IF gear = "FORWARD" /\ steering = "RIGHT"
    THEN (IF is_short(distance) THEN FORWARD_RIGHT_SHORT_VELOCITY
          ELSE FORWARD_RIGHT_LONG_VELOCITY)
    ELSE IF gear = "BACKWARD" /\ steering = "STRAIGHT"
    THEN (IF is_short(distance) THEN BACKWARD_STRAIGHT_SHORT_VELOCITY
          ELSE BACKWARD_STRAIGHT_LONG_VELOCITY)
    ELSE IF gear = "BACKWARD" /\ steering = "LEFT"
    THEN (IF is_short(distance) THEN BACKWARD_LEFT_SHORT_VELOCITY
          ELSE BACKWARD_LEFT_LONG_VELOCITY)
    ELSE IF gear = "BACKWARD" /\ steering = "RIGHT"
    THEN (IF is_short(distance) THEN BACKWARD_RIGHT_SHORT_VELOCITY
          ELSE BACKWARD_RIGHT_LONG_VELOCITY)
    ELSE 0

\* the double arithmetic of lines 173-182: 0.5 * 0.6 / 0.8 * 1000 evaluates to
\* 374.99999999999994, below the exact 375
DoubleBelowExact(distance, velocity) ==
    distance = Length(500, 0) /\ velocity = FORWARD_STRAIGHT_LONG_VELOCITY

\* row['distance'] * TURNING_RADIUS / row['velocity'] if row['velocity'] != 0
\* else 0, times 1000: mm * 60 / velocity, and e11 * 3e-6 / velocity for the
\* lengths around the tolerance
duration_ms(distance, velocity) ==
    IF velocity = 0 THEN [num |-> 0, den |-> 1, below |-> FALSE]
    ELSE IF distance.e11 = 0
    THEN [num |-> distance.mm * TURNING_RADIUS, den |-> velocity,
          below |-> DoubleBelowExact(distance, velocity)]
    ELSE [num |-> (distance.e11 * TURNING_RADIUS) \div 20,
          den |-> 1000000 * velocity, below |-> FALSE]

\* int(q) of Python: truncation towards zero (den > 0)
Trunc(q) ==
    IF q.num >= 0
    THEN (IF q.below /\ q.num % q.den = 0 /\ q.num > 0
          THEN q.num \div q.den - 1 ELSE q.num \div q.den)
    ELSE -((-q.num) \div q.den)

\* duration_ms_int = int(row['duration_ms'])
duration_ms_int(row) == Trunc(row.duration_ms)

\* the command communicate_with_robot builds from a row of the DataFrame
CommandOfRow(row) ==
    [steering |-> steering_char(row), gear |-> gear_char(row),
     duration |-> duration_ms_int(row), lifting |-> "N"]

InitPath ==
    /\ full_path \in Paths
    /\ df = <<>>
    /\ tpc = "entry"
    /\ CommAtRest
    /\ OdoAtRest
    /\ CollectAtRest

\* lines 115-117: if not full_path: return None
PathEmpty ==
    /\ tpc = "entry"
    /\ full_path = <<>>
    /\ tpc' = "returned_None"
    /\ UNCHANGED <<full_path, df, commVars, odoVars, collectVars>>

\* lines 120-127: one row per primitive, a length below the tolerance
\* becomes 0.0
BuildFrame ==
    /\ tpc = "entry"
    /\ full_path # <<>>
    /\ df' = [k \in 1..Len(full_path) |->
                [steering |-> full_path[k].steering,
                 gear |-> full_path[k].gear,
                 distance |-> IF AbsBelowTolerance(full_path[k].param)
                              THEN ZeroLength ELSE full_path[k].param]]
    /\ tpc' = "filter"
    /\ UNCHANGED <<full_path, commVars, odoVars, collectVars>>

\* lines 133-137: the rows of distance 0 are removed; nothing left: None
DropZeroRows ==
    /\ tpc = "filter"
    /\ df' = SelectSeq(df, LAMBDA row : row.distance # ZeroLength)
    /\ tpc' = IF df' = <<>> THEN "returned_None" ELSE "velocity"
    /\ UNCHANGED <<full_path, commVars, odoVars, collectVars>>

\* line 161: the velocity column
AddVelocity ==
    /\ tpc = "velocity"
    /\ df' = [k \in 1..Len(df) |->
                [steering |-> df[k].steering, gear |-> df[k].gear,
                 distance |-> df[k].distance,
                 velocity |-> get_velocity(df[k].gear, df[k].steering,
                                           df[k].distance)]]
    /\ tpc' = "duration"
    /\ UNCHANGED <<full_path, commVars, odoVars, collectVars>>

\* lines 173-185: the duration columns, and the DataFrame is returned
AddDuration ==
    /\ tpc = "duration"
    /\ df' = [k \in 1..Len(df) |->
                [steering |-> df[k].steering, gear |-> df[k].gear,
                 distance |-> df[k].distance, velocity |-> df[k].velocity,
                 duration_ms |-> duration_ms(df[k].distance, df[k].velocity)]]
    /\ tpc' = "returned"
    /\ UNCHANGED <<full_path, commVars, odoVars, collectVars>>

NextPath ==
    \/ PathEmpty
    \/ BuildFrame
    \/ DropZeroRows
    \/ AddVelocity
    \/ AddDuration

PathSpec == InitPath /\ [][NextPath]_vars

----------------------------------------------------------------------------
(* calculate_x_y_coords                                                    *)
(*                                                                         *)
(* Numbers are those of the telemetry log: timestamps in milliseconds,     *)
(* velocities in thousandths of a metre per second, rates in thousandths   *)
(* of a degree per second.  Positions are in micrometres and the heading   *)
(* in thousandths of a degree, so that math.pi is 180000.  The rates fed   *)
(* in are multiples of 90 degrees per second and the timestamps whole      *)
(* seconds: the heading is a multiple of a right angle, where cos and sin  *)
(* are -1, 0 or 1, and the doubles of Python agree with these numbers to   *)
(* 1e-9 (the heading -pi is exactly -math.pi).                             *)

MaxSamples == 2     \* longest telemetry log

Sample(t, v, g) ==
    [timestamp_ms |-> t, desired_velocity |-> 0, actual_velocity |-> v,
     error |-> 0, output |-> 0, gyro_z |-> g]

OdometrySamples ==
    {Sample(t, v, g) : t \in {1000, 2000, 3000}, v \in {0, 500},
                       g \in {0, 90000, 180000, -90000}}

\* 0.5 m/s and 90 degrees per second, 100 ms after the start
SampleTenth == Sample(100, 500, 90000)

\* the logs handed over: those of the samples above, and the one of the
\* sample at 100 ms alone (its heading is no multiple of a right angle, and
\* no step follows it)
Logs == SeqsUpTo(OdometrySamples, MaxSamples) \cup {<<SampleTenth>>}

\* ROBOT_START_POINT = (0, 0, 0)
ROBOT_START_POINT == <<0, 0, 0>>

\* math.pi, in thousandths of a degree
Pi == 180000

\* math.cos, math.sin at the multiples of a right angle
Cos(t) == IF t = 0 THEN 1 ELSE IF t \in {Pi, -Pi} THEN -1 ELSE 0
Sin(t) == IF t = Pi \div 2 THEN 1 ELSE IF t = -(Pi \div 2) THEN -1 ELSE 0

\* sort_values(by='timestamp_ms'): ascending, rows of equal timestamp keep
\* their order (logs this short are sorted by insertion)
RECURSIVE InsertByTimestamp(_, _)
InsertByTimestamp(sorted, row) ==
    IF sorted = <<>> \/ Last(sorted).timestamp_ms <= row.timestamp_ms
    THEN Append(sorted, row)
    ELSE Append(InsertByTimestamp(Front(sorted), row), Last(sorted))

RECURSIVE SortValues(_)
SortValues(rows) ==
    IF rows = <<>> THEN <<>>
    ELSE InsertByTimestamp(SortValues(Front(rows)), Last(rows))

\* (_theta_rad + math.pi) % (2 * math.pi) - math.pi
Normalize(t) == ((t + Pi) % (2 * Pi)) - Pi

\* mutant: the heading is updated before the position
StepX_heading_first(px, ptheta, row, dt_ms) ==
    px + row.actual_velocity
            * Cos(((ptheta + (row.gyro_z * dt_ms) \div 1000 + Pi) % (2 * Pi)) - Pi)
            * dt_ms

\* lines 313-329: the pose after one sample, dt_ms milliseconds after the
\* last one
StepX(px, ptheta, row, dt_ms) == px + row.actual_velocity * Cos(ptheta) * dt_ms
StepY(py, ptheta, row, dt_ms) == py + row.actual_velocity * Sin(ptheta) * dt_ms
StepTheta(ptheta, row, dt_ms) ==
    Normalize(ptheta + (row.gyro_z * dt_ms) \div 1000)

InitOdo ==
    /\ robot_responses_df \in Logs
    /\ df_for_odometry = <<>>
    /\ opc = "entry"
    /\ x = 0
    /\ y = 0
    /\ theta = 0
    /\ last_timestamp_ms = 0
    /\ calculated_x_coords = <<>>
    /\ calculated_y_coords = <<>>
    /\ thetas = <<>>
    /\ CommAtRest
    /\ PlanAtRest
    /\ CollectAtRest

\* lines 294-309: the copy, the start pose, the sort
SortCopy ==
    /\ opc = "entry"
    /\ df_for_odometry' = SortValues(robot_responses_df)
    /\ x' = ROBOT_START_POINT[1]
    /\ y' = ROBOT_START_POINT[2]
    /\ theta' = ROBOT_START_POINT[3]
    /\ last_timestamp_ms' = 0
    /\ calculated_x_coords' = <<>>
    /\ calculated_y_coords' = <<>>
    /\ opc' = "loop"
    /\ UNCHANGED <<robot_responses_df, thetas, commVars, planVars,
                   collectVars>>

\* lines 311-333: one iteration of the loop over the sorted copy
Integrate ==
    /\ opc = "loop"
    /\ Len(calculated_x_coords) < Len(df_for_odometry)
    /\ LET row == df_for_odometry[Len(calculated_x_coords) + 1]
           dt_ms == row.timestamp_ms - last_timestamp_ms
       IN  /\ x' = StepX(x, theta, row, dt_ms)
           /\ y' = StepY(y, theta, row, dt_ms)
           /\ theta' = StepTheta(theta, row, dt_ms)
           /\ last_timestamp_ms' = row.timestamp_ms
    /\ calculated_x_coords' = Append(calculated_x_coords, x')
    /\ calculated_y_coords' = Append(calculated_y_coords, y')
    /\ thetas' = Append(thetas, theta')
    /\ UNCHANGED <<robot_responses_df, df_for_odometry, opc, commVars,
                   planVars, collectVars>>

\* lines 336-337: the positions become columns of the caller's DataFrame,
\* the i-th position in its i-th row
WriteBack ==
    /\ opc = "loop"
    /\ Len(calculated_x_coords) = Len(df_for_odometry)
    /\ robot_responses_df' =
          [k \in 1..Len(robot_responses_df) |->
              [timestamp_ms |-> robot_responses_df[k].timestamp_ms,
               desired_velocity |-> robot_responses_df[k].desired_velocity,
               actual_velocity |-> robot_responses_df[k].actual_velocity,
               error |-> robot_responses_df[k].error,
               output |-> robot_responses_df[k].output,
               gyro_z |-> robot_responses_df[k].gyro_z,
               x_pos |-> calculated_x_coords[k],
               y_pos |-> calculated_y_coords[k]]]
    /\ opc' = "returned"
    /\ UNCHANGED <<df_for_odometry, x, y, theta, last_timestamp_ms,
                   calculated_x_coords, calculated_y_coords, thetas,
                   commVars, planVars, collectVars>>

NextOdo ==
    \/ SortCopy
    \/ Integrate
    \/ WriteBack

OdometrySpec == InitOdo /\ [][NextOdo]_vars

----------------------------------------------------------------------------
(* send_command_and_collect_logs (imu_test.py, simple_forward.py)          *)
(*                                                                         *)
(* The caller has opened the port.  Nothing is caught around send_command  *)
(* or the reads: what they raise leaves the function.  The fields that     *)
(* imu_test divides by 1000, and gyro_z_dps, are in millionths.            *)

Collectors == {"imu_test", "simple_forward"}

\* the keywords the collector passes to send_command
CollectorKeywords(c) ==
    IF c = "imu_test"
    THEN {"steering", "gear", "velocity", "use_controller"}
    ELSE {"steering", "gear", "velocity", "use_controller", "lifting"}

\* the arguments main() gives the collector
CollectorCommand(c) ==
    IF c = "imu_test"
    THEN [steering |-> "N", gear |-> "F", velocity |-> 0, use_controller |-> 0]
    ELSE [steering |-> "S", gear |-> "F", velocity |-> 50, use_controller |-> 1]

\* while (time.monotonic() - start_time) < duration_seconds
CollectLoopCondition(e) == e < DurationPolls

\* time.sleep(0.01) and the time of the read
CollectTick(e, d) == IF e + d > DurationPolls THEN DurationPolls ELSE e + d

\* the try block of imu_test does not raise ValueError
Parses_imu(parts) ==
    /\ IntParses(parts[1])
    /\ \A i \in 2..5 : FloatParses(parts[i])
    /\ IntParses(parts[6])

parsed_data_imu(parts) ==
    [timestamp_ms |-> IntValue(parts[1]),
     desired_velocity |-> FloatValue(parts[2]),
     actual_velocity |-> FloatValue(parts[3]),
     error |-> FloatValue(parts[4]),
     output |-> FloatValue(parts[5]),
     gyro_z_udps |-> IntValue(parts[6]),
     gyro_z_dps |-> IntValue(parts[6])]

\* what a line adds to the log of the collector, one sample or nothing
Collected(c, response_line) ==
    LET parts == SplitComma(response_line)
    IN  IF Len(parts) >= 6
        THEN IF c = "imu_test"
             THEN IF Parses_imu(parts) THEN <<parsed_data_imu(parts)>> ELSE <<>>
             ELSE IF Parses(parts) THEN <<parsed_data(parts)>> ELSE <<>>
        ELSE <<>>

\* Collected, tabulated over the lines the controller sends
CollectedLine ==
    [c \in Collectors |-> [line \in Lines |-> Collected(c, ResponseLine(line))]]

\* mutant: the first timestamp is read again for every sample
Rebase_reread(log) ==
    [i \in 1..Len(log) |->
        IF i = 1 THEN [log[i] EXCEPT !.timestamp_ms = 0] ELSE log[i]]

\* initial_ts = robot_log_data[0]['timestamp_ms'], subtracted from every
\* sample; an empty log is left alone
Rebase(log) ==
    IF log = <<>> THEN log
    ELSE LET initial_ts == log[1].timestamp_ms
         IN  [i \in 1..Len(log) |->
                [log[i] EXCEPT !.timestamp_ms = @ - initial_ts]]

InitCollect ==
    /\ PlanAtRest
    /\ OdoAtRest
    /\ collector \in Collectors
    /\ uart_module = "uart_py"
    /\ path_df = <<>>
    /\ pc = "collect_entry"
    /\ index = 0
    /\ port = "open"
    /\ writes = <<>>
    /\ arrived = <<>>
    /\ cursor = 0
    /\ robot_log_data = <<>>
    /\ elapsed = 0
    /\ segment_completed = FALSE
    /\ trace = <<>>
    /\ inTimeSignals = {}
    /\ result = <<>>

\* the call of send_command, then the empty log and start_time
CollectSend ==
    /\ pc = "collect_entry"
    /\ IF ~Accepts(uart_module, CollectorKeywords(collector))
       THEN /\ pc' = "raised"
            /\ writes' = writes
       ELSE /\ writes' = Append(writes, CollectorCommand(collector))
            /\ \E ok \in BOOLEAN : pc' = IF ok THEN "collect_loop" ELSE "raised"
    /\ robot_log_data' = <<>>
    /\ elapsed' = 0
    /\ UNCHANGED <<uart_module, path_df, index, port, arrived, cursor,
                   segment_completed, trace, inTimeSignals, result>>
    /\ UNCHANGED <<planVars, odoVars, collectVars>>

\* one iteration of the loop: at most one line is read, then the sleep
CollectPoll ==
    /\ pc = "collect_loop"
    /\ CollectLoopCondition(elapsed)
    /\ IF InWaiting(arrived, cursor)
       THEN /\ cursor' = ReadlineCursor(cursor)
            /\ robot_log_data' =
                  robot_log_data
                      \o CollectedLine[collector][ReadlineLine(arrived, cursor)]
       ELSE UNCHANGED <<cursor, robot_log_data>>
    /\ \E d \in 1..MaxStep : elapsed' = CollectTick(elapsed, d)
    /\ UNCHANGED <<uart_module, path_df, pc, index, port, writes, arrived,
                   segment_completed, trace, inTimeSignals, result>>
    /\ UNCHANGED <<planVars, odoVars, collectVars>>

\* in_waiting or readline raises: the exception leaves the function
CollectPollRaises ==
    /\ pc = "collect_loop"
    /\ CollectLoopCondition(elapsed)
    /\ pc' = "raised"
    /\ UNCHANGED <<uart_module, path_df, index, port, writes, arrived, cursor,
                   robot_log_data, elapsed, segment_completed, trace,
                   inTimeSignals, result>>
    /\ UNCHANGED <<planVars, odoVars, collectVars>>

\* the loop is over: the timestamps are rebased in place and the log is
\* returned as a DataFrame
CollectReturn ==
    /\ pc = "collect_loop"
    /\ ~CollectLoopCondition(elapsed)
    /\ robot_log_data' = Rebase(robot_log_data)
    /\ result' = robot_log_data'
    /\ pc' = "returned"
    /\ UNCHANGED <<uart_module, path_df, index, port, writes, arrived, cursor,
                   elapsed, segment_completed, trace, inTimeSignals>>
    /\ UNCHANGED <<planVars, odoVars, collectVars>>

\* the controller sends a line while the collector runs
ArriveCollect ==
    /\ pc \in {"collect_entry", "collect_loop"}
    /\ Len(arrived) < MaxCollected
    /\ \E line \in Lines : arrived' = Append(arrived, line)
    /\ UNCHANGED <<uart_module, path_df, pc, index, port, writes, cursor,
                   robot_log_data, elapsed, segment_completed, trace,
                   inTimeSignals, result>>
    /\ UNCHANGED <<planVars, odoVars, collectVars>>

NextCollect ==
    \/ CollectSend
    \/ CollectPoll
    \/ CollectPollRaises
    \/ CollectReturn
    \/ ArriveCollect

CollectSpec == InitCollect /\ [][NextCollect]_vars

----------------------------------------------------------------------------
(* Vocabulary of the properties *)

\* the stop command: steering N, gear N, zero duration
IsStop(m) == m.steering = "N" /\ m.gear = "N" /\ m.duration = 0

At(e) == {i \in DOMAIN trace : trace[i].ev = e}
AtSeg(e, k) == {i \in At(e) : trace[i].seg = k}

\* the writes of segment commands, and all writes after position i
SegmentWritesAt == {i \in At("write") : trace[i].seg > 0}
WritesAfter(i) == {j \in At("write") : j > i}

StopWrites == {i \in DOMAIN writes : IsStop(writes[i])}

Completed(k) == AtSeg("completed", k) # {}
TimedOut(k) == AtSeg("timeout", k) # {}
ReadRaised(k) == AtSeg("read_raised", k) # {}

\* the thread is past the call that follows the for loop
PastStopCall == pc \in {"finally", "returned"}

----------------------------------------------------------------------------
(* C1: the stop command is written exactly once in every execution on a   *)
(* non-empty plan that returns: after normal completion, after a segment   *)
(* timeout, and after a failure raised while a segment command is sent.    *)
C1_StopExactlyOnce ==
    (pc = "returned" /\ path_df # <<>>) => Cardinality(StopWrites) = 1

(* C2: segment commands are written in plan order, nothing skipped,        *)
(* repeated or reordered; the command of segment k+1 is written only after *)
(* segment k has completed, so at most one command is in flight.           *)
C2_InPlanOrder ==
    /\ \A i \in SegmentWritesAt :
          LET k == Cardinality({j \in SegmentWritesAt : j <= i})
          IN  /\ trace[i].seg = k
              /\ k <= Len(path_df)
              /\ trace[i].msg.steering =
                    (IF path_df[k].steering = "LEFT" THEN "R"
                     ELSE IF path_df[k].steering = "RIGHT" THEN "L" ELSE "S")
              /\ trace[i].msg.duration = path_df[k].duration_ms
              /\ k > 1 => \E j \in AtSeg("completed", k - 1) : j < i
    /\ Cardinality(SegmentWritesAt) <= Cardinality(At("completed")) + 1

C2_Witness ==
    /\ Cardinality(SegmentWritesAt) = 2
    /\ path_df[1] # path_df[2]
    /\ pc = "wait"

(* C3: once a segment has timed out no segment command is written any      *)
(* more; the one write after the timeout is the stop command, and it is    *)
(* the last write of the execution.                                        *)
C3_TimeoutThenStop ==
    \A i \in At("timeout") :
        /\ \A j \in WritesAfter(i) : IsStop(trace[j].msg)
        /\ PastStopCall =>
              /\ Cardinality(WritesAfter(i)) = 1
              /\ writes # <<>> /\ IsStop(Last(writes))

C3_Witness ==
    /\ pc = "returned"
    /\ TimedOut(1)
    /\ Len(path_df) = 2
    /\ IsStop(Last(writes))

(* C4: when the last command of the plan has completed, the stop command   *)
(* is written after that completion and before the function returns, and   *)
(* no segment command is written after the completion.                     *)
C4_AllDoneThenStop ==
    \A i \in AtSeg("completed", Len(path_df)) :
        /\ \A j \in WritesAfter(i) : IsStop(trace[j].msg)
        /\ PastStopCall =>
              /\ Cardinality(WritesAfter(i)) = 1
              /\ \A c \in At("close") : \A j \in WritesAfter(i) : j < c

C4_Witness ==
    /\ pc = "returned"
    /\ Len(path_df) = 2
    /\ Completed(2)
    /\ IsStop(Last(writes))

\* the wait for segment k started (its command went out) and is over
WaitStarted(k) == AtSeg("write", k) # {} /\ AtSeg("write_raised", k) = {}
WaitOver(k) == WaitStarted(k) /\ (index > k \/ pc # "wait")

(* C5 as stated: every wait ends as Completed or TimedOut.                 *)
C5_EndsCompletedOrTimedOut ==
    \A k \in 1..Len(path_df) : WaitOver(k) => Completed(k) \/ TimedOut(k)

(* C5, amended: the wait is bounded.  From AwaitingCompletion the thread   *)
(* always eventually leaves the wait, whatever lines arrive meanwhile, as  *)
(* Completed, as TimedOut, or because the serial read raised; and every    *)
(* plan execution eventually terminates.                                   *)
C5_BoundedWait ==
    /\ [](pc = "wait" => <>(pc # "wait"))
    /\ <>(pc \in {"returned", "raised"})
    /\ [](\A k \in 1..Len(path_df) :
             WaitOver(k) => Completed(k) \/ TimedOut(k) \/ ReadRaised(k))

C5_Witness ==
    /\ pc = "returned"
    /\ Completed(1)
    /\ TimedOut(2)
    /\ Len(robot_log_data) = 1

(* C6: a segment whose completion signal arrived on the link while it was  *)
(* awaited and before its deadline ends as Completed, not TimedOut, also   *)
(* when telemetry lines are queued ahead of the signal.                    *)
C6_CompletesIfSignalledInTime ==
    \A k \in inTimeSignals : ~TimedOut(k)

(* C7: the port opened for the execution is closed exactly once before the *)
(* function returns, on every exit path, and nothing is written to it or   *)
(* read from it after the close.                                           *)
C7_ClosedOnce ==
    /\ [](/\ Cardinality(At("close")) <= 1
          /\ (port = "closed") = (At("close") # {})
          /\ (pc = "returned" /\ At("open") # {}) =>
                port = "closed" /\ Cardinality(At("close")) = 1)
    /\ [][port = "closed" =>
             /\ port' = "closed"
             /\ writes' = writes
             /\ cursor' = cursor
             /\ Len(trace') = Len(trace)]_vars

C7_Witness ==
    /\ pc = "returned"
    /\ port = "closed"
    /\ ReadRaised(2)

\* the text of the line the read cursor is at
NextText == ResponseLine(arrived[cursor + 1])
\* this step ends the wait as Completed
CompletesNow ==
    /\ Len(trace') = Len(trace) + 1
    /\ Last(trace').ev = "completed"
    /\ segment_completed'

(* C8: a line that is read is taken as the completion signal if and only   *)
(* if its text is exactly "1"; such a line adds nothing to the telemetry   *)
(* log; a line whose first comma-separated field is "1" and which has more *)
(* fields is not taken as completion.  (The text of a line is what is left *)
(* of it once decoded and stripped of its line terminator.)                *)
C8_CompletionIffOne ==
    [][cursor' # cursor =>
          /\ CompletesNow <=> NextText = <<49>>
          /\ CompletesNow => robot_log_data' = robot_log_data
          /\ (Len(SplitComma(NextText)) > 1 /\ SplitComma(NextText)[1] = <<49>>)
                => ~CompletesNow /\ pc' = "wait"]_vars

C8_Witness ==
    /\ cursor = 2
    /\ arrived = <<LineSampleA, LineDone>>
    /\ Completed(1)
    /\ Len(robot_log_data) = 1
    /\ robot_log_data[1].timestamp_ms = 1

\* a field that is no decimal number
NonNumeric(field) ==
    LET t == Strip(field)
        d == IF t # <<>> /\ Head(t) \in {43, 45} THEN Tail(t) ELSE t
    IN  \/ \A i \in 1..Len(d) : d[i] \notin 48..57
        \/ \E i \in 1..Len(d) : d[i] \notin (48..57) \cup {46}
        \/ Cardinality({i \in 1..Len(d) : d[i] = 46}) > 1

Malformed(text) ==
    LET parts == SplitComma(text)
    IN  /\ text # <<49>>
        /\ \/ Len(parts) < 6
           \/ \E i \in 1..6 : NonNumeric(parts[i])

(* C9: decoding never aborts the plan.  A line that is not the completion  *)
(* signal and has fewer than 6 fields, or a non-numeric field among the    *)
(* first 6, is dropped: the log is unchanged, the thread stays in the wait *)
(* for the same segment, nothing is raised, and the read cursor moves on   *)
(* to the next line.                                                       *)
C9_MalformedDropped ==
    [][(cursor' # cursor /\ Malformed(NextText)) =>
          /\ robot_log_data' = robot_log_data
          /\ pc = "wait" /\ pc' = "wait"
          /\ index' = index
          /\ trace' = trace
          /\ cursor' = cursor + 1]_vars

C9_Witness ==
    /\ arrived = <<LineNonNumeric, LineSampleB>>
    /\ cursor = 2
    /\ Len(robot_log_data) = 1
    /\ robot_log_data[1].timestamp_ms = 2
    /\ robot_log_data[1].gyro_z = -9000

\* a telemetry line that is well formed
WellFormed(text) ==
    LET parts == SplitComma(text)
    IN  /\ text # <<49>>
        /\ Len(parts) >= 6
        /\ IntParses(parts[1])
        /\ \A i \in 2..6 : ~NonNumeric(parts[i])

\* the sample of each well-formed telemetry line, nothing for the others
SampleOfLine ==
    [line \in Lines |->
        LET text == Strip(SelectSeq(line, LAMBDA c : c < 128))
        IN  IF WellFormed(text) THEN <<parsed_data(SplitComma(text))>>
            ELSE <<>>]

\* the samples of the well-formed telemetry lines among the first n lines
RECURSIVE SamplesOf(_)
SamplesOf(n) ==
    IF n = 0 THEN <<>> ELSE SamplesOf(n - 1) \o SampleOfLine[arrived[n]]

(* C10: the telemetry log is append-only and in arrival order.  Lines are  *)
(* read one at a time in the order they arrived, none twice; every         *)
(* well-formed telemetry line that is read adds exactly one sample at the  *)
(* end of the log; no entry is removed, changed or moved, within a segment *)
(* or across segments.                                                     *)
C10_AppendOnlyInOrder ==
    /\ [](robot_log_data = SamplesOf(cursor))
    /\ [][/\ cursor' \in {cursor, cursor + 1}
          /\ Len(robot_log_data') >= Len(robot_log_data)
          /\ SubSeq(robot_log_data', 1, Len(robot_log_data)) = robot_log_data
          /\ (cursor' = cursor + 1 /\ WellFormed(NextText)) =>
                Len(robot_log_data') = Len(robot_log_data) + 1]_vars

C10_Witness ==
    /\ arrived = <<LineSampleB, LineSampleA>>
    /\ cursor = 2
    /\ Len(robot_log_data) = 2
    /\ robot_log_data[1].timestamp_ms = 2
    /\ robot_log_data[2].timestamp_ms = 1

----------------------------------------------------------------------------
(* Properties of create_path_dataframe *)

\* round(num / den) of Python for num >= 0, den > 0: to the nearest whole
\* number, a half to the even one
Round(num, den) ==
    LET q == num \div den
        r == num % den
    IN  IF 2 * r < den THEN q
        ELSE IF 2 * r > den THEN q + 1
        ELSE IF q % 2 = 0 THEN q ELSE q + 1

(* C11: for every command built from a primitive of non-negative length    *)
(* with non-zero velocity, the duration sent is                            *)
(* round(distance * turningRadius / velocity * 1000); with velocity 0 the  *)
(* duration is 0.                                                          *)
C11_DurationRounded ==
    tpc = "returned" =>
        \A k \in 1..Len(df) :
            df[k].distance.mm >= 0 =>
                CommandOfRow(df[k]).duration =
                    IF df[k].velocity = 0 THEN 0
                    ELSE Round(df[k].distance.mm * TURNING_RADIUS,
                               df[k].velocity)

\* the short and the long velocity of each pair of gear and steering
PairVelocity ==
    [gear \in {"FORWARD", "BACKWARD"}, steering \in Steerings |->
        IF gear = "FORWARD"
        THEN (IF steering = "STRAIGHT"
              THEN <<FORWARD_STRAIGHT_SHORT_VELOCITY, FORWARD_STRAIGHT_LONG_VELOCITY>>
              ELSE IF steering = "LEFT"
              THEN <<FORWARD_LEFT_SHORT_VELOCITY, FORWARD_LEFT_LONG_VELOCITY>>
              ELSE <<FORWARD_RIGHT_SHORT_VELOCITY, FORWARD_RIGHT_LONG_VELOCITY>>)
        ELSE (IF steering = "STRAIGHT"
              THEN <<BACKWARD_STRAIGHT_SHORT_VELOCITY, BACKWARD_STRAIGHT_LONG_VELOCITY>>
              ELSE IF steering = "LEFT"
              THEN <<BACKWARD_LEFT_SHORT_VELOCITY, BACKWARD_LEFT_LONG_VELOCITY>>
              ELSE <<BACKWARD_RIGHT_SHORT_VELOCITY, BACKWARD_RIGHT_LONG_VELOCITY>>)]

(* C12: the velocity of every row is the short velocity of its gear and    *)
(* steering when its distance is below 0.4, the long velocity when the     *)
(* distance is 0.4 or more, and 0 for a gear that is neither Forward nor   *)
(* Backward.                                                               *)
C12_VelocityLookup ==
    tpc \in {"duration", "returned"} =>
        \A k \in 1..Len(df) :
            df[k].velocity =
                IF <<df[k].gear, df[k].steering>> \in DOMAIN PairVelocity
                THEN PairVelocity[df[k].gear, df[k].steering]
                         [IF df[k].distance.mm >= 400 THEN 2 ELSE 1]
                ELSE 0

C12_Witness ==
    /\ tpc = "returned"
    /\ Len(df) = 2
    /\ df[1].gear = "BACKWARD" /\ df[1].steering = "STRAIGHT"
    /\ df[1].distance = Length(400, 0)
    /\ df[1].velocity = BACKWARD_STRAIGHT_LONG_VELOCITY
    /\ df[2].gear = "NEUTRAL"
    /\ df[2].velocity = 0

\* the primitives whose length is not below the tolerance of 1e-10
Kept ==
    SelectSeq(full_path,
              LAMBDA p : ~(p.param.mm = 0 /\ -2 < p.param.e11 /\ p.param.e11 < 2))

(* C13: the primitives with |distance| < 1e-10 are dropped; every other    *)
(* primitive gives exactly one row, hence one command, in the order of the *)
(* planner's sequence; when nothing is left there is no plan.              *)
C13_TinyDropped ==
    /\ tpc = "returned_None" => Kept = <<>>
    /\ tpc \in {"velocity", "duration", "returned"} =>
          /\ Len(df) = Len(Kept)
          /\ \A k \in 1..Len(df) :
                /\ df[k].steering = Kept[k].steering
                /\ df[k].gear = Kept[k].gear
                /\ df[k].distance = Kept[k].param
    /\ tpc = "returned" =>
          \A k \in 1..Len(df) :
              /\ CommandOfRow(df[k]).steering = steering_char(Kept[k])
              /\ CommandOfRow(df[k]).gear = gear_char(Kept[k])

C13_Witness ==
    /\ tpc = "returned"
    /\ Len(full_path) = 2
    /\ full_path[1].param = Length(0, 1)
    /\ Len(df) = 1
    /\ df[1].distance = Length(0, 2)
    /\ CommandOfRow(df[1]).duration = 0

(* C14: a primitive of negative length never reaches the velocity lookup   *)
(* and gives no command.                                                   *)
C14_NegativeRejected ==
    (\E k \in 1..Len(full_path) : full_path[k].param.mm < 0)
        => tpc \notin {"duration", "returned"}

----------------------------------------------------------------------------
(* Properties of calculate_x_y_coords *)

\* the pose after the first n samples of a log, integrated in the order of
\* the log
RECURSIVE PoseAsReceived(_, _)
PoseAsReceived(rows, n) ==
    IF n = 0
    THEN [x |-> 0, y |-> 0, theta |-> 0, last |-> 0]
    ELSE LET p == PoseAsReceived(rows, n - 1)
             dt_ms == rows[n].timestamp_ms - p.last
         IN  [x |-> p.x + rows[n].actual_velocity * Cos(p.theta) * dt_ms,
              y |-> p.y + rows[n].actual_velocity * Sin(p.theta) * dt_ms,
              theta |-> ((p.theta + (rows[n].gyro_z * dt_ms) \div 1000 + Pi)
                            % (2 * Pi)) - Pi,
              last |-> rows[n].timestamp_ms]

(* C15: there is exactly one position per sample, and the position written *)
(* into the i-th row of the log is the pose integrated up to and including *)
(* the i-th sample of the log as received, whatever the order of the       *)
(* timestamps.                                                             *)
C15_PosePerSampleInOrder ==
    opc = "returned" =>
        /\ Len(calculated_x_coords) = Len(robot_responses_df)
        /\ \A k \in 1..Len(robot_responses_df) :
              /\ robot_responses_df[k].x_pos = PoseAsReceived(robot_responses_df, k).x
              /\ robot_responses_df[k].y_pos = PoseAsReceived(robot_responses_df, k).y

\* a sample has a smaller timestamp than the one before it
NonMonotonic(rows) ==
    \E k \in 1..(Len(rows) - 1) : rows[k + 1].timestamp_ms < rows[k].timestamp_ms

(* C16: on a log with a timestamp smaller than the previous one the        *)
(* integration fails: no pose is produced, the function does not return    *)
(* normally, and no column is added to the log.                            *)
C16_NonMonotonicFails ==
    NonMonotonic(robot_responses_df) =>
        /\ calculated_x_coords = <<>>
        /\ opc # "returned"

(* C17: after every update the heading lies in (-pi, pi].                  *)
C17_HeadingHalfOpen ==
    \A k \in DOMAIN thetas : -Pi < thetas[k] /\ thetas[k] <= Pi

----------------------------------------------------------------------------
(* Properties of communicate_with_robot, continued *)

(* C18: the value returned for a non-empty plan reports the status,        *)
(* Aborted when a segment timed out and Completed otherwise, the number of *)
(* segments that reached Completed, and the telemetry log.                 *)
C18_ResultReportsStatus ==
    (pc = "returned" /\ path_df # <<>>) =>
        /\ DOMAIN ReturnValue = {"status", "segmentsRun", "telemetry"}
        /\ ReturnValue.status =
              (IF At("timeout") # {} THEN "Aborted" ELSE "Completed")
        /\ ReturnValue.segmentsRun = Cardinality(At("completed"))
        /\ ReturnValue.telemetry = robot_log_data

\* nothing was raised by the serial port
HealthyLink ==
    At("open_raised") \cup At("write_raised") \cup At("read_raised") = {}

(* C19: the call of send_command made for a segment is accepted; the wait  *)
(* for a segment starts only after its command has been written; on a      *)
(* healthy link the first segment of a non-empty plan is written and       *)
(* awaited.                                                                *)
C19_DispatchThenWait ==
    /\ At("TypeError") = {}
    /\ pc = "wait" => AtSeg("write", index) # {}
    /\ (pc = "returned" /\ path_df # <<>> /\ HealthyLink) => WaitStarted(1)

\* the sending of a segment command failed at position i of the history
SendFailedAt ==
    {i \in DOMAIN trace : /\ trace[i].ev \in {"write_raised", "TypeError"}
                          /\ trace[i].seg > 0}

(* C20: after a failure raised while a segment command is sent, no segment *)
(* command is written any more, no wait is started for the failed command, *)
(* and the function goes on to return normally: the thread only closes the *)
(* port and returns.                                                       *)
C20_WriteFailureAborts ==
    \A i \in SendFailedAt :
        /\ \A j \in WritesAfter(i) : trace[j].seg = 0
        /\ ~Completed(trace[i].seg)
        /\ ~TimedOut(trace[i].seg)
        /\ ~ReadRaised(trace[i].seg)
        /\ \A j \in DOMAIN trace : j > i => trace[j].ev = "close"
        /\ pc \in {"finally", "returned"}
        /\ index = trace[i].seg

C20_Witness ==
    /\ pc = "returned"
    /\ Len(path_df) = 2
    /\ AtSeg("write_raised", 1) # {}
    /\ Len(writes) = 1
    /\ port = "closed"

\* a line with a byte that is not ASCII
HasNonAscii(line) == \E i \in 1..Len(line) : line[i] >= 128

(* C21: a received line with a byte that is not valid ASCII is discarded   *)
(* as a whole: it does not complete the segment in flight (the line at the *)
(* read cursor is the one that completed it while "completed" is the last  *)
(* entry of the history), and it adds no sample to the log.                *)
C21_NoisyLineDiscarded ==
    /\ (/\ cursor > 0
        /\ trace # <<>>
        /\ Last(trace).ev = "completed")
          => ~HasNonAscii(arrived[cursor])
    /\ Len(robot_log_data) <=
          Cardinality({k \in 1..cursor : ~HasNonAscii(arrived[k])})

----------------------------------------------------------------------------
(* Properties of calculate_x_y_coords, continued *)

(* C22: after calculate_x_y_coords the caller's log has the same fields as *)
(* before the call: those of a telemetry sample, nothing added.            *)
C22_LogUntouched ==
    \A k \in 1..Len(robot_responses_df) :
        DOMAIN robot_responses_df[k] =
            {"timestamp_ms", "desired_velocity", "actual_velocity", "error",
             "output", "gyro_z"}

\* the pose before the k-th step of the loop, and the time the step spans
XBefore(k) == IF k = 1 THEN 0 ELSE calculated_x_coords[k - 1]
YBefore(k) == IF k = 1 THEN 0 ELSE calculated_y_coords[k - 1]
ThetaBefore(k) == IF k = 1 THEN 0 ELSE thetas[k - 1]
DtMs(k) ==
    df_for_odometry[k].timestamp_ms
        - (IF k = 1 THEN 0 ELSE df_for_odometry[k - 1].timestamp_ms)

(* C23: every step advances the position with the heading from before the *)
(* step and then turns the heading by the gyro rate times dt; from the     *)
(* seed (0, 0, 0) the sample at 100 ms with velocity 0.5 and rate 90 gives *)
(* x = 0.05, y = 0 and heading 9 degrees; a step with dt = 0 leaves x, y   *)
(* and heading unchanged.                                                  *)
C23_PositionThenHeading ==
    \A k \in 1..Len(calculated_x_coords) :
        /\ calculated_x_coords[k] =
              XBefore(k) + df_for_odometry[k].actual_velocity
                              * Cos(ThetaBefore(k)) * DtMs(k)
        /\ calculated_y_coords[k] =
              YBefore(k) + df_for_odometry[k].actual_velocity
                              * Sin(ThetaBefore(k)) * DtMs(k)
        /\ (thetas[k] - ThetaBefore(k)
               - (df_for_odometry[k].gyro_z * DtMs(k)) \div 1000) % 360000 = 0
        /\ DtMs(k) = 0 =>
              /\ calculated_x_coords[k] = XBefore(k)
              /\ calculated_y_coords[k] = YBefore(k)
              /\ thetas[k] = ThetaBefore(k)
        /\ (k = 1 /\ df_for_odometry[1] = Sample(100, 500, 90000)) =>
              /\ calculated_x_coords[1] = 50000
              /\ calculated_y_coords[1] = 0
              /\ thetas[1] = 9000

C23_Witness ==
    /\ opc = "returned"
    /\ Len(robot_responses_df) = 1
    /\ robot_responses_df[1].timestamp_ms = 100
    /\ robot_responses_df[1].x_pos = 50000
    /\ robot_responses_df[1].y_pos = 0
    /\ thetas = <<9000>>

----------------------------------------------------------------------------
(* Properties of the commands *)

(* C24: every command handed to the serial port has a steering code in     *)
(* {L, R, S, N} and a gear code in {F, B, N}; the commands of segments     *)
(* have a steering code in {L, R, S}; the command written after the loop   *)
(* is the stop, steering N, gear N, duration 0, and no other is.           *)
C24_CommandCodes ==
    /\ \A i \in DOMAIN writes :
          /\ writes[i].steering \in {"L", "R", "S", "N"}
          /\ writes[i].gear \in {"F", "B", "N"}
    /\ \A i \in At("write") :
          /\ trace[i].seg > 0 =>
                trace[i].msg.steering \in {"L", "R", "S"} /\ ~IsStop(trace[i].msg)
          /\ trace[i].seg = 0 => IsStop(trace[i].msg)

C24_Witness ==
    /\ pc = "returned"
    /\ Len(writes) = 3
    /\ writes[1].steering = "R" /\ writes[1].gear = "F"
    /\ writes[2].steering = "S" /\ writes[2].gear = "B"
    /\ writes[3].steering = "N" /\ writes[3].gear = "N"
    /\ writes[3].duration = 0

----------------------------------------------------------------------------
(* Properties of communicate_with_robot: stale signals, aborts, no plan *)

(* C26: a segment is completed only by a completion line that arrived      *)
(* after the segment's command was dispatched, that is, while the segment  *)
(* was awaited.                                                            *)
C26_CompletedOnlyByFreshSignal ==
    \A k \in 1..Len(path_df) : Completed(k) => k \in inTimeSignals

\* the execution was aborted: a timeout, or an exception in the try block
Aborted ==
    At("timeout") \cup At("read_raised") \cup At("write_raised")
        \cup At("TypeError") # {}

(* C27: when the execution ends by a timeout or an exception, the value    *)
(* returned holds every sample appended to the log before the abort, in    *)
(* arrival order: the samples of the well-formed lines read.               *)
C27_LogSurvivesAbort ==
    (pc = "returned" /\ Aborted) =>
        /\ result = robot_log_data
        /\ result = SamplesOf(cursor)

C27_Witness ==
    /\ pc = "returned"
    /\ TimedOut(1)
    /\ Len(result) = 2
    /\ result[1].timestamp_ms = 2
    /\ result[2].timestamp_ms = 1

(* C28: with no plan (missing or empty) the port is never opened, nothing  *)
(* is written, not even the stop, and what is returned is empty.           *)
C28_NoPlanNoPort ==
    path_df = <<>> =>
        /\ port = "unopened"
        /\ writes = <<>>
        /\ trace = <<>>
        /\ pc \in {"entry", "returned"}
        /\ pc = "returned" => result = <<>>

C28_Witness ==
    /\ path_df = <<>>
    /\ pc = "returned"
    /\ port = "unopened"
    /\ result = <<>>

----------------------------------------------------------------------------
(* Properties of send_command_and_collect_logs *)

\* the samples of the lines read so far, with the timestamps as received
RECURSIVE ReceivedOf(_)
ReceivedOf(n) ==
    IF n = 0 THEN <<>>
    ELSE ReceivedOf(n - 1) \o CollectedLine[collector][arrived[n]]

(* C29: in the fixed-duration collectors the timestamps are rebased by the *)
(* first sample's timestamp after collection: the first returned sample    *)
(* has timestamp 0, the difference of any two returned timestamps is the   *)
(* difference of the received ones, and nothing else changes.  A "1" line  *)
(* is ignored: reading it adds nothing and leaves the loop running, and    *)
(* the collector returns only when the duration has passed.                *)
C29_RebasedByFirstSample ==
    /\ [](pc = "returned" =>
            LET received == ReceivedOf(cursor)
            IN  /\ ~CollectLoopCondition(elapsed)
                /\ Len(result) = Len(received)
                /\ result # <<>> => result[1].timestamp_ms = 0
                /\ \A i, j \in 1..Len(result) :
                      result[i].timestamp_ms - result[j].timestamp_ms
                          = received[i].timestamp_ms - received[j].timestamp_ms
                /\ \A i \in 1..Len(result) :
                      [result[i] EXCEPT !.timestamp_ms = 0]
                          = [received[i] EXCEPT !.timestamp_ms = 0])
    /\ [][(cursor' # cursor /\ IsCompletion(NextText)) =>
             /\ pc' = pc
             /\ pc = "collect_loop"
             /\ robot_log_data' = robot_log_data]_vars

C29_Witness ==
    /\ collector = "imu_test"
    /\ pc = "returned"
    /\ arrived = <<LineSampleB, LineDone, LineSampleA>>
    /\ cursor = 3
    /\ Len(result) = 2
    /\ result[1].timestamp_ms = 0
    /\ result[2].timestamp_ms = -1

====
